---- MODULE Spec2Model ----
(***************************************************************************)
(* The metric accumulators of composer/models/nlp_metrics.py:              *)
(* MaskedAccuracy, CrossEntropyLoss, LanguageCrossEntropyLoss, Perplexity  *)
(* and BinaryF1Score.  A run fixes one metric class and its constructor    *)
(* arguments, then makes update() calls on two workers' instances and on   *)
(* one instance that sees every batch, and compute() calls.                *)
(*                                                                         *)
(* Tensors are one-dimensional batches: a logits tensor is a sequence of   *)
(* rows (one score per class, class c at index c + 1), a target tensor a   *)
(* sequence of integers.  Scores are 0 or 1; losses are in units of        *)
(* 1/1000 nat and kept as exact fractions.                                 *)
(***************************************************************************)
EXTENDS Integers, Sequences, FiniteSets, TLC

\* Longest batch of the enumerated inputs.
MaxLen == 2
\* Number of update() calls of one run.
MaxUpdates == 2

VARIABLES
    kind,          \* the metric class of this run
    ignore_index,  \* constructor argument (MaskedAccuracy, CrossEntropyLoss)
    env,           \* what the run's libraries do: process group, torch version
    metric,        \* worker -> accumulator fields of that worker's instance
    pooled,        \* the instance of a single-worker run: sees every batch
    twin,          \* a LanguageCrossEntropyLoss fed the same calls as pooled
    seen,          \* reference record of the raw data of the successful calls
    calls,         \* update() calls made so far
    last           \* the last call: what it was given and how it ended

vars == <<kind, ignore_index, env, metric, pooled, twin, seen, calls, last>>

Workers == {1, 2}

-----------------------------------------------------------------------------
(* Numbers: exact fractions, and the values compute() can hand back.       *)

Abs(x) == IF x < 0 THEN -x ELSE x

RECURSIVE GCD(_, _)
GCD(a, b) == IF b = 0 THEN a ELSE GCD(b, a % b)

\* The fraction n/d (d # 0) in lowest terms with a positive denominator.
Rat(n, d) ==
    LET g == GCD(Abs(n), Abs(d))
        s == IF d < 0 THEN -1 ELSE 1
    IN  [num |-> s * (n \div g), den |-> s * (d \div g)]

RatAdd(a, b) == Rat(a.num * b.den + b.num * a.den, a.den * b.den)

Zero == Rat(0, 1)

\* A value returned or raised by a call: tag "num" is the fraction num/den,
\* "exp" is e to the power num/den, "nan" and "inf" are the float
\* sentinels, and any other tag is the exception that was raised.
Val(tag, n, d) == [tag |-> tag, num |-> n, den |-> d]

Num(r) == Val("num", r.num, r.den)

NaN == Val("nan", 0, 1)

Raise(e) == Val(e, 0, 1)

Raised(v) == v.tag \notin {"num", "exp", "nan", "inf"}

\* Float division a / n of a fraction by an integer counter: torch returns
\* nan for 0/0 and inf for x/0, it does not raise.
TrueDiv(a, n) ==
    IF n # 0 THEN Num(Rat(a.num, a.den * n))
    ELSE IF a.num = 0 THEN NaN
    ELSE Val("inf", IF a.num < 0 THEN -1 ELSE 1, 1)

\* torch.exp of a value.
Exp(v) ==
    CASE v.tag = "num" -> Val("exp", v.num, v.den)
      [] v.tag = "inf" -> IF v.num < 0 THEN Num(Zero) ELSE v
      [] OTHER -> v

-----------------------------------------------------------------------------
(* Tensors.                                                                *)

RECURSIVE SeqsUpTo(_, _)
\* The sequences over S of length 1..n.
SeqsUpTo(S, n) ==
    IF n = 0 THEN {}
    ELSE SeqsUpTo(S, n - 1) \cup [1..n -> S]

RECURSIVE Count(_, _)
\* Number of indices of the sequence of booleans that are TRUE.
Count(b, i) ==
    IF i = 0 THEN 0 ELSE Count(b, i - 1) + (IF b[i] THEN 1 ELSE 0)

RECURSIVE SumOver(_, _)
SumOver(f, i) == IF i = 0 THEN 0 ELSE SumOver(f, i - 1) + f[i]

\* torch.argmax over the class dimension: the first maximal class.
ArgmaxFirst(row) ==
    CHOOSE c \in 0..(Len(row) - 1) :
        /\ \A b \in 0..(Len(row) - 1) : row[b + 1] <= row[c + 1]
        /\ \A b \in 0..(c - 1) : row[b + 1] < row[c + 1]

-----------------------------------------------------------------------------
(* Constructor arguments and library behaviour.                            *)

\* ignore_index: an integer, or None.
Idx(v) == [none |-> FALSE, value |-> v]

NoneIdx == [none |-> TRUE, value |-> 0]

\* Python truth of `if self.ignore_index:` -- None and 0 are both false.
Truthy(ix) == ~ix.none /\ ix.value # 0

\* The outcome of one update() call: the fields after it, and the exception
\* it raised ("none" when it returned).
Outcome(state, raised) == [state |-> state, raised |-> raised]

\* The outcome of one compute() call: the fields after it and its value.
Computed(state, result) == [state |-> state, result |-> result]

-----------------------------------------------------------------------------
(* MaskedAccuracy.                                                         *)

MaskedAccuracyInit == [correct |-> 0, total |-> 0]

\* A variant that counts every position, ignored or not.
MaskedAccuracyUpdateDropsMask(self, ix, preds, target) ==
    LET am == [i \in 1..Len(preds) |-> ArgmaxFirst(preds[i])]
    IN  IF Len(am) # Len(target) THEN Outcome(self, "AssertionError")
        ELSE Outcome([correct |-> self.correct
                          + Count([i \in 1..Len(target) |-> am[i] = target[i]],
                                  Len(target)),
                      total |-> self.total + Len(target)], "none")

MaskedAccuracyUpdate(self, ix, preds, target) ==
    LET am == [i \in 1..Len(preds) |-> ArgmaxFirst(preds[i])]
        mask == [i \in 1..Len(target) |-> target[i] # ix.value]
    IN  IF Len(am) # Len(target) THEN Outcome(self, "AssertionError")
        ELSE Outcome([correct |-> self.correct
                          + Count([i \in 1..Len(target) |->
                                       mask[i] /\ am[i] = target[i]],
                                  Len(target)),
                      total |-> self.total + Count(mask, Len(target))], "none")

\* A variant that resets the counters once it has read them.
MaskedAccuracyComputeResets(self) ==
    Computed(MaskedAccuracyInit, TrueDiv(Rat(self.correct, 1), self.total))

MaskedAccuracyCompute(self) ==
    Computed(self, TrueDiv(Rat(self.correct, 1), self.total))

-----------------------------------------------------------------------------
(* Losses.                                                                 *)

\* Class indices of the loss metrics' logits (vocab_size classes).
Vocab == {0, 1}

\* 1000 * ln(sum of e^score) of a two-class row of 0/1 scores, rounded:
\* ln 2, ln(1 + e), ln(2e).
LogSumExp(row) ==
    CASE row[1] + row[2] = 0 -> 693
      [] row[1] + row[2] = 1 -> 1313
      [] OTHER -> 1693

\* Cross entropy of one position: -log_softmax(row)[t], in 1/1000 nat.
PositionLoss(row, t) == LogSumExp(row) - 1000 * row[t + 1]

\* torch.nn.CrossEntropyLoss(ignore_index=ix, reduction="sum") applied to
\* (output, target): the summed loss of the positions whose target is not
\* ix, or the exception torch raises.  ignore_index=None is not an int:
\* torch builds that reject it raise TypeError in the forward call.
CrossEntropySum(ix, rejects_none, output, target) ==
    LET kept == [i \in 1..Len(target) |-> ix.none \/ target[i] # ix.value]
    IN  IF ix.none /\ rejects_none THEN Raise("TypeError")
        ELSE IF Len(output) # Len(target) THEN Raise("ValueError")
        ELSE IF \E i \in 1..Len(target) : kept[i] /\ target[i] \notin Vocab
             THEN Raise("IndexError")
        ELSE Num(Rat(SumOver([i \in 1..Len(target) |->
                                 IF kept[i] THEN PositionLoss(output[i], target[i])
                                 ELSE 0], Len(target)), 1))

LossInit == [sum_loss |-> Zero, total_batches |-> 0]

CrossEntropyLossInit == LossInit

\* The enumerated logits already have vocab_size columns and the targets one
\* dimension, so the two view() calls leave them as they are.
CrossEntropyLossUpdate(self, ix, rejects_none, output, target) ==
    IF output.form # "Tensor" THEN Outcome(self, "AssertionError")
    ELSE
    LET losses == CrossEntropySum(ix, rejects_none, output.logits, target)
        mask == [i \in 1..Len(target) |-> target[i] # ix.value]
        total_batches == IF Truthy(ix) THEN Count(mask, Len(target))
                         ELSE Len(target)
    IN  IF Raised(losses) THEN Outcome(self, losses.tag)
        ELSE Outcome([sum_loss |-> RatAdd(self.sum_loss, losses),
                      total_batches |-> self.total_batches + total_batches],
                     "none")

\* A variant that refuses to divide by a zero counter.
CrossEntropyLossComputeRaisesOnZero(self) ==
    Computed(self, IF self.total_batches = 0 THEN Raise("ZeroDivisionError")
                   ELSE TrueDiv(self.sum_loss, self.total_batches))

CrossEntropyLossCompute(self) ==
    Computed(self, TrueDiv(self.sum_loss, self.total_batches))

\* composer.models.loss.soft_cross_entropy on index targets: the mean cross
\* entropy of the batch, ValueError when the batch sizes differ.
SoftCrossEntropy(logits, target) ==
    IF Len(logits) # Len(target) THEN Raise("ValueError")
    ELSE Num(Rat(SumOver([i \in 1..Len(target) |->
                             PositionLoss(logits[i], target[i])], Len(target)),
                 Len(target)))

LanguageCrossEntropyLossInit == LossInit

\* A variant that counts the positions of the batch, as CrossEntropyLoss does.
LanguageCrossEntropyLossUpdateCountsPositions(self, output, target) ==
    LET loss ==
            IF output.form = "Mapping" /\ "loss" \in output.keys
            THEN Num(Rat(output.loss, 1))
            ELSE IF output.form = "Mapping" /\ "logits" \notin output.keys
            THEN Raise("KeyError")
            ELSE IF output.form \notin {"Mapping", "Tensor"}
            THEN Raise("Exception")
            ELSE SoftCrossEntropy(output.logits, target)
    IN  IF Raised(loss) THEN Outcome(self, loss.tag)
        ELSE Outcome([sum_loss |-> RatAdd(self.sum_loss, loss),
                      total_batches |-> self.total_batches + Len(target)],
                     "none")

LanguageCrossEntropyLossUpdate(self, output, target) ==
    LET loss ==
            IF output.form = "Mapping" /\ "loss" \in output.keys
            THEN Num(Rat(output.loss, 1))
            ELSE IF output.form = "Mapping" /\ "logits" \notin output.keys
            THEN Raise("KeyError")
            ELSE IF output.form \notin {"Mapping", "Tensor"}
            THEN Raise("Exception")
            ELSE SoftCrossEntropy(output.logits, target)
    IN  IF Raised(loss) THEN Outcome(self, loss.tag)
        ELSE Outcome([sum_loss |-> RatAdd(self.sum_loss, loss),
                      total_batches |-> self.total_batches + 1], "none")

LanguageCrossEntropyLossCompute(self) ==
    Computed(self, TrueDiv(self.sum_loss, self.total_batches))

\* A variant that returns the average loss itself.
PerplexityComputeNoExp(self) == LanguageCrossEntropyLossCompute(self)

PerplexityCompute(self) ==
    LET avg_loss == LanguageCrossEntropyLossCompute(self)
    IN  Computed(avg_loss.state, Exp(avg_loss.result))

-----------------------------------------------------------------------------
(* BinaryF1Score.  A list state is a Python list of the appended batches   *)
(* until a distributed sync concatenates it into one tensor.               *)

ListState(items) == [cat |-> FALSE, items |-> items]

TensorState(rows) == [cat |-> TRUE, items |-> rows]

BinaryF1ScoreInit == [predictions |-> ListState(<<>>), labels |-> ListState(<<>>)]

BinaryF1ScoreUpdate(self, output, target) ==
    Outcome([predictions |-> ListState(Append(self.predictions.items, output)),
             labels |-> ListState(Append(self.labels.items, target))], "none")

\* sklearn.metrics.f1_score(y_pred, y_true) for binary labels, positive
\* label 1: 2TP / (2TP + FP + FN), 0.0 when nothing is positive, ValueError
\* when the two arrays differ in length.
F1Score(y_pred, y_true) ==
    IF Len(y_pred) # Len(y_true) THEN Raise("ValueError")
    ELSE
    LET n  == Len(y_true)
        tp == Count([i \in 1..n |-> y_pred[i] = 1 /\ y_true[i] = 1], n)
        fp == Count([i \in 1..n |-> y_pred[i] = 1 /\ y_true[i] # 1], n)
        fn == Count([i \in 1..n |-> y_pred[i] # 1 /\ y_true[i] = 1], n)
    IN  IF 2 * tp + fp + fn = 0 THEN Num(Zero)
        ELSE Num(Rat(2 * tp, 2 * tp + fp + fn))

\* torch.argmax of a Python list raises TypeError; a list has no .cpu().
BinaryF1ScoreCompute(self) ==
    IF ~self.predictions.cat THEN Computed(self, Raise("TypeError"))
    ELSE IF ~self.labels.cat THEN Computed(self, Raise("AttributeError"))
    ELSE Computed(self,
                  F1Score([i \in 1..Len(self.predictions.items) |->
                              ArgmaxFirst(self.predictions.items[i])],
                          self.labels.items))

-----------------------------------------------------------------------------
(* The Metric base class: dispatch, and the reduction declared per field.  *)

Kinds == {"MaskedAccuracy", "CrossEntropyLoss", "LanguageCrossEntropyLoss",
          "Perplexity", "BinaryF1Score"}

LossKinds == {"CrossEntropyLoss", "LanguageCrossEntropyLoss", "Perplexity"}

MetricInit(k) ==
    CASE k = "MaskedAccuracy" -> MaskedAccuracyInit
      [] k = "CrossEntropyLoss" -> CrossEntropyLossInit
      [] k = "BinaryF1Score" -> BinaryF1ScoreInit
      [] OTHER -> LanguageCrossEntropyLossInit

MetricCompute(k, self) ==
    CASE k = "MaskedAccuracy" -> MaskedAccuracyCompute(self)
      [] k = "CrossEntropyLoss" -> CrossEntropyLossCompute(self)
      [] k = "LanguageCrossEntropyLoss" -> LanguageCrossEntropyLossCompute(self)
      [] k = "Perplexity" -> PerplexityCompute(self)
      [] OTHER -> BinaryF1ScoreCompute(self)

RECURSIVE Concat(_, _)
\* The first n sequences of ss joined end to end.
Concat(ss, n) == IF n = 0 THEN <<>> ELSE Concat(ss, n - 1) \o ss[n]

\* dist_reduce_fx="sum" over the ranks' values of an integer field.
ReduceSum(xs) == SumOver(xs, Len(xs))

RECURSIVE ReduceSumRat(_, _)
\* dist_reduce_fx="sum" over the ranks' values of a float field.
ReduceSumRat(xs, n) ==
    IF n = 0 THEN Zero ELSE RatAdd(ReduceSumRat(xs, n - 1), xs[n])

\* dist_reduce_fx="cat" over the ranks' list states: every rank's batches
\* joined into one tensor, rank by rank.
ReduceCat(lists) ==
    TensorState(Concat([r \in 1..Len(lists) |->
                           Concat(lists[r].items, Len(lists[r].items))],
                       Len(lists)))

\* The fields after a sync over the ranks' instances, each field merged with
\* the reduction its add_state call declared; concatenating nothing raises.
SyncStates(k, ranks) ==
    LET n == Len(ranks)
    IN  CASE k = "MaskedAccuracy" ->
               Outcome([correct |-> ReduceSum([r \in 1..n |-> ranks[r].correct]),
                        total |-> ReduceSum([r \in 1..n |-> ranks[r].total])],
                       "none")
          [] k \in LossKinds ->
               Outcome([sum_loss |->
                            ReduceSumRat([r \in 1..n |-> ranks[r].sum_loss], n),
                        total_batches |->
                            ReduceSum([r \in 1..n |-> ranks[r].total_batches])],
                       "none")
          [] OTHER ->
               IF \A r \in 1..n : ranks[r].predictions.items = <<>>
               THEN Outcome(ranks[1], "ValueError")
               ELSE Outcome([predictions |->
                                 ReduceCat([r \in 1..n |-> ranks[r].predictions]),
                             labels |->
                                 ReduceCat([r \in 1..n |-> ranks[r].labels])],
                            "none")

\* Metric.compute as the base class wraps it: with a process group the
\* fields are synced over the ranks first and the local fields restored
\* afterwards; without one the subclass's compute() runs on the local fields.
WrappedCompute(k, process_group, local, ranks) ==
    IF ~process_group THEN MetricCompute(k, local)
    ELSE LET synced == SyncStates(k, ranks)
         IN  IF synced.raised # "none"
             THEN Computed(local, Raise(synced.raised))
             ELSE Computed(local, MetricCompute(k, synced.state).result)

-----------------------------------------------------------------------------
(* Inputs of update().                                                     *)

\* Rows over four classes whose argmax is 0 (a tie), 1 and 2.
AccuracyRows == {<<1, 1, 0, 0>>, <<0, 1, 0, 0>>, <<0, 0, 1, 0>>}

AccuracyTargets == {1, -100}

AccuracyIgnore == {Idx(-100), Idx(1)}

\* The batch of the documented example: predictions 1, 0, 2, 3 against
\* targets 1, ignore, 2, 2.
ExamplePreds == << <<0, 1, 0, 0>>, <<1, 1, 0, 0>>, <<0, 0, 1, 0>>, <<0, 0, 0, 1>> >>

ExampleTarget == <<1, -100, 2, 2>>

\* Rows over the two classes of Vocab.
LossRows == {<<0, 0>>, <<1, 0>>}

LossTargets == {0, 1, -100}

LossIgnore == {NoneIdx, Idx(0), Idx(-100)}

\* Values of a mapping's `loss` entry, in 1/1000 nat.
LossValues == {500}

TensorOut(logits) ==
    [form |-> "Tensor", keys |-> {}, loss |-> 0, logits |-> logits]

MappingOut(keys, loss, logits) ==
    [form |-> "Mapping", keys |-> keys, loss |-> loss, logits |-> logits]

\* A model output that is neither a tensor nor a mapping (a tuple, say).
OtherOut == [form |-> "Other", keys |-> {}, loss |-> 0, logits |-> <<>>]

LossLogits == SeqsUpTo(LossRows, MaxLen)

\* The model outputs LanguageCrossEntropyLoss and Perplexity are given: a
\* logits tensor, a mapping with any subset of the keys `loss` and `logits`,
\* or something else.
LossOutputs ==
    {TensorOut(l) : l \in LossLogits}
        \cup {MappingOut({"logits"}, 0, l) : l \in LossLogits}
        \cup {MappingOut({"loss", "logits"}, v, l) :
                  v \in LossValues, l \in LossLogits}
        \cup {MappingOut({"loss"}, v, <<>>) : v \in LossValues}
        \cup {MappingOut({}, 0, <<>>), OtherOut}

\* The model outputs CrossEntropyLoss is given: a logits tensor, one mapping
\* for each subset of the keys, or something else.
CrossEntropyOutputs ==
    {TensorOut(l) : l \in LossLogits}
        \cup {MappingOut(K, 500, << <<0, 0>> >>) : K \in SUBSET {"loss", "logits"}}
        \cup {OtherOut}

CrossEntropyTargets == SeqsUpTo(LossTargets, MaxLen)

LanguageTargets == SeqsUpTo(Vocab, MaxLen)

\* Whether the output carries logits whose batch size the target must match.
ShapesAgree(output, target) ==
    output.form = "Other" \/ output.logits = <<>>
        \/ Len(output.logits) = Len(target)

F1Rows == {<<1, 0>>, <<0, 1>>}

F1Labels == {0, 1}

\* Rows and labels one BinaryF1Score instance may hold in a run.
MaxSamples == 3

-----------------------------------------------------------------------------
(* Reference record of the raw data, kept beside the instances.            *)

SeenInit == [valid |-> 0, hits |-> 0, loss |-> Zero,
             ok |-> [w \in Workers |-> 0], outputs |-> <<>>, targets |-> <<>>]

Updated(w) == [seen EXCEPT !.ok[w] = @ + 1]

Counted(positions) == Cardinality(positions)

NotIgnored(ix, target) ==
    {i \in DOMAIN target : ix.none \/ target[i] # ix.value}

RECURSIVE LossOf(_, _, _)
LossOf(positions, logits, target) ==
    IF positions = {} THEN 0
    ELSE LET i == CHOOSE j \in positions : TRUE
         IN  PositionLoss(logits[i], target[i])
                 + LossOf(positions \ {i}, logits, target)

-----------------------------------------------------------------------------
(* The calls.                                                              *)

NoValue == Val("-", 0, 1)

LastInit == [op |-> "init", raised |-> "none", agree |-> TRUE,
             form |-> "-", keys |-> {}, kept |-> TRUE,
             result |-> NoValue, previous |-> NoValue, streak |-> 0]

UpdateDigest(raised, agree, form, keys, kept) ==
    [op |-> "update", raised |-> raised, agree |-> agree, form |-> form,
     keys |-> keys, kept |-> kept,
     result |-> NoValue, previous |-> NoValue, streak |-> 0]

\* One update() call of a single-worker run has ended with outcome r on the
\* run's instance (and rt on the twin); seen2 is the reference record if
\* the call returned.
Called(r, rt, seen2, agree, form, keys) ==
    /\ calls' = calls + 1
    /\ pooled' = r.state
    /\ twin' = rt.state
    /\ seen' = IF r.raised = "none" THEN seen2 ELSE seen
    /\ last' = UpdateDigest(r.raised, agree, form, keys, r.state = pooled)
    /\ UNCHANGED <<kind, ignore_index, env, metric>>

\* One update() call of a distributed run on worker w's instance, with
\* outcome r there and rp on the instance that is given every batch.
CalledOn(w, r, rp, agree, form, keys) ==
    /\ calls' = calls + 1
    /\ metric' = [metric EXCEPT ![w] = r.state]
    /\ pooled' = rp.state
    /\ seen' = IF rp.raised = "none" THEN Updated(w) ELSE seen
    /\ last' = UpdateDigest(rp.raised, agree, form, keys, rp.state = pooled)
    /\ UNCHANGED <<kind, ignore_index, env, twin>>

AccuracyPreds == SeqsUpTo(AccuracyRows, MaxLen) \cup {ExamplePreds}

AccuracyTargetSeqs == SeqsUpTo(AccuracyTargets, MaxLen) \cup {ExampleTarget}

UpdateMaskedAccuracy ==
    /\ kind = "MaskedAccuracy"
    /\ calls < MaxUpdates
    /\ \E preds \in AccuracyPreds, target \in AccuracyTargetSeqs :
          LET r == MaskedAccuracyUpdate(pooled, ignore_index, preds, target)
              live == NotIgnored(ignore_index, target)
          IN  Called(r, Outcome(twin, "none"),
                     [Updated(1) EXCEPT
                         !.valid = @ + Counted(live),
                         !.hits = @ + Counted({i \in live :
                                      ArgmaxFirst(preds[i]) = target[i]})],
                     Len(preds) = Len(target), "Tensor", {})

UpdateCrossEntropyLoss ==
    /\ kind = "CrossEntropyLoss"
    /\ calls < MaxUpdates
    /\ \E output \in CrossEntropyOutputs, target \in CrossEntropyTargets :
          LET r == CrossEntropyLossUpdate(pooled, ignore_index,
                                          env.rejects_none, output, target)
              live == NotIgnored(ignore_index, target)
          IN  Called(r, Outcome(twin, "none"),
                     [Updated(1) EXCEPT
                         !.valid = @ + Counted(live),
                         !.loss = RatAdd(@, Rat(LossOf(live, output.logits,
                                                       target), 1))],
                     ShapesAgree(output, target), output.form, output.keys)

UpdateLanguage ==
    /\ kind \in {"LanguageCrossEntropyLoss", "Perplexity"}
    /\ calls < MaxUpdates
    /\ \E output \in LossOutputs, target \in LanguageTargets :
          LET r == LanguageCrossEntropyLossUpdate(pooled, output, target)
              rt == LanguageCrossEntropyLossUpdate(twin, output, target)
              expected == IF "loss" \in output.keys THEN Rat(output.loss, 1)
                          ELSE SoftCrossEntropy(output.logits, target)
          IN  Called(r, rt,
                     [Updated(1) EXCEPT !.loss = RatAdd(@, expected)],
                     ShapesAgree(output, target), output.form, output.keys)

F1Outputs == SeqsUpTo(F1Rows, MaxLen)

F1Targets == SeqsUpTo(F1Labels, MaxLen)

\* Number of rows a list state holds.
Held(list) == Len(Concat(list.items, Len(list.items)))

UpdateBinaryF1Score ==
    /\ kind = "BinaryF1Score"
    /\ calls < MaxUpdates
    /\ \E output \in F1Outputs, target \in F1Targets :
          /\ Held(pooled.predictions) + Len(output) <= MaxSamples
          /\ Held(pooled.labels) + Len(target) <= MaxSamples
          /\ Called(BinaryF1ScoreUpdate(pooled, output, target),
                    Outcome(twin, "none"),
                    [Updated(1) EXCEPT !.outputs = Append(@, output),
                                       !.targets = Append(@, target)],
                    Len(output) = Len(target), "Tensor", {})

\* compute() on the instance of the single-worker run.
Compute ==
    LET r == WrappedCompute(kind, env.process_group, pooled, <<pooled>>)
    IN  /\ pooled' = r.state
        /\ last' = [op |-> "compute", raised |-> "none", agree |-> TRUE,
                    form |-> "-", keys |-> {}, kept |-> (r.state = pooled),
                    result |-> r.result,
                    previous |-> IF last.op = "compute" THEN last.result
                                 ELSE NoValue,
                    streak |-> IF last.op = "compute" THEN 2 ELSE 1]
        /\ UNCHANGED <<kind, ignore_index, env, metric, twin, seen, calls>>

\* update() of the run's metric class.  A loss metric's output is a model
\* output record; the other two are given the logits tensor itself.
MetricUpdate(k, self, ix, rejects_none, output, target) ==
    CASE k = "MaskedAccuracy" -> MaskedAccuracyUpdate(self, ix, output, target)
      [] k = "CrossEntropyLoss" ->
             CrossEntropyLossUpdate(self, ix, rejects_none, output, target)
      [] k = "BinaryF1Score" -> BinaryF1ScoreUpdate(self, output, target)
      [] OTHER -> LanguageCrossEntropyLossUpdate(self, output, target)

Inputs(k) ==
    CASE k = "MaskedAccuracy" -> AccuracyPreds \X AccuracyTargetSeqs
      [] k = "CrossEntropyLoss" -> CrossEntropyOutputs \X CrossEntropyTargets
      [] k = "BinaryF1Score" -> F1Outputs \X F1Targets
      [] OTHER -> LossOutputs \X LanguageTargets

\* update() on one worker of a distributed run; the same batch also goes to
\* the instance of a single-worker run over the pooled data.
UpdateOnWorker ==
    /\ calls < MaxUpdates
    /\ \E w \in Workers, in \in Inputs(kind) :
          LET output == in[1]
              target == in[2]
              r == MetricUpdate(kind, metric[w], ignore_index,
                                env.rejects_none, output, target)
              rp == MetricUpdate(kind, pooled, ignore_index,
                                 env.rejects_none, output, target)
          IN  /\ kind = "BinaryF1Score" =>
                    /\ Held(pooled.predictions) + Len(output) <= MaxSamples
                    /\ Held(pooled.labels) + Len(target) <= MaxSamples
              /\ IF kind \in LossKinds
                 THEN CalledOn(w, r, rp, ShapesAgree(output, target),
                               output.form, output.keys)
                 ELSE CalledOn(w, r, rp, Len(output) = Len(target),
                               "Tensor", {})

\* compute() in the distributed run: every rank syncs, so the ranks must
\* hold the same number of list entries to gather.
ComputeSynced ==
    /\ kind = "BinaryF1Score" =>
          (metric[1].predictions.items = <<>>) = (metric[2].predictions.items = <<>>)
    /\ LET r == WrappedCompute(kind, TRUE, metric[1], <<metric[1], metric[2]>>)
       IN  /\ metric' = [metric EXCEPT ![1] = r.state]
           /\ last' = [op |-> "compute_synced", raised |-> "none",
                       agree |-> TRUE, form |-> "-", keys |-> {},
                       kept |-> (r.state = metric[1]), result |-> r.result,
                       previous |-> NoValue, streak |-> 0]
    /\ UNCHANGED <<kind, ignore_index, env, pooled, twin, seen, calls>>

Configs ==
    {[kind |-> "MaskedAccuracy", ignore_index |-> ix, rejects_none |-> TRUE] :
        ix \in AccuracyIgnore}
    \cup {c \in [kind : {"CrossEntropyLoss"}, ignore_index : LossIgnore,
                  rejects_none : BOOLEAN] :
             c.rejects_none \/ c.ignore_index.none}
    \cup {[kind |-> k, ignore_index |-> NoneIdx, rejects_none |-> TRUE] :
             k \in {"LanguageCrossEntropyLoss", "Perplexity", "BinaryF1Score"}}

InitOf(cs) ==
    \E c \in cs, pg \in BOOLEAN :
        /\ kind = c.kind
        /\ ignore_index = c.ignore_index
        /\ env = [process_group |-> pg, rejects_none |-> c.rejects_none]
        /\ metric = [w \in Workers |-> MetricInit(c.kind)]
        /\ pooled = MetricInit(c.kind)
        /\ twin = LanguageCrossEntropyLossInit
        /\ seen = SeenInit
        /\ calls = 0
        /\ last = LastInit

Init == InitOf(Configs)

Next ==
    \/ UpdateMaskedAccuracy
    \/ UpdateCrossEntropyLoss
    \/ UpdateLanguage
    \/ UpdateBinaryF1Score
    \/ Compute

Spec == Init /\ [][Next]_vars

NextDistributed == UpdateOnWorker \/ ComputeSynced

SpecDistributed == Init /\ [][NextDistributed]_vars

InitMaskedAccuracy == InitOf({c \in Configs : c.kind = "MaskedAccuracy"})

NextMaskedAccuracy == UpdateMaskedAccuracy \/ Compute

SpecMaskedAccuracy == InitMaskedAccuracy /\ [][NextMaskedAccuracy]_vars

InitLanguage ==
    InitOf({c \in Configs : c.kind \in {"LanguageCrossEntropyLoss", "Perplexity"}})

NextLanguage == UpdateLanguage \/ Compute

SpecLanguage == InitLanguage /\ [][NextLanguage]_vars

-----------------------------------------------------------------------------
(* Properties.                                                             *)

\* The counter compute() divides by (BinaryF1Score has none).
Denominator(k, self) ==
    CASE k = "MaskedAccuracy" -> self.total
      [] k \in LossKinds -> self.total_batches
      [] OTHER -> Held(self.labels)

\* What compute() of a single-worker run returns in the current state.
PooledResult == WrappedCompute(kind, env.process_group, pooled, <<pooled>>).result

\* A mapping with a `loss` or `logits` key, or a raw logits tensor.
SupportedOutput(form, keys) ==
    form = "Tensor" \/ (form = "Mapping" /\ keys \cap {"loss", "logits"} # {})

\* The rows of all batches of a call log, and its labels, in call order.
AllRows(batches) == Concat(batches, Len(batches))

\* C1: for every metric class and every state reached by update calls,
\* compute() leaves every accumulator field as it was, and a second
\* compute() right after the first returns the same result.
C1_ComputeIdempotent ==
    /\ last.op = "compute" => last.kept
    /\ last.streak = 2 => last.result = last.previous

C1_Witness ==
    /\ last.streak = 2
    /\ seen.ok[1] >= 1
    /\ last.result.tag = "num"
    /\ ~env.process_group

\* C2: merging two workers' states field by field with the declared
\* reductions and computing gives what one instance that received all
\* batches of both workers computes.
C2_MergedEqualsPooled ==
    (last.op = "compute_synced" /\ \A w \in Workers : seen.ok[w] >= 1)
        => last.result = PooledResult

\* C3: an update whose predictions and targets disagree in shape raises
\* inside that update call and leaves the accumulator fields unchanged.
C3_ShapeMismatchRaises ==
    (last.op = "update" /\ ~last.agree) => (last.raised # "none" /\ last.kept)

\* C4 as claimed: compute() with a zero denominator raises an error instead
\* of returning a value.
C4_ZeroDenominatorRaises ==
    (last.op = "compute" /\ kind # "BinaryF1Score"
        /\ Denominator(kind, pooled) = 0) => Raised(last.result)

\* C4 as amended: for MaskedAccuracy, CrossEntropyLoss,
\* LanguageCrossEntropyLoss and Perplexity, compute() with a zero
\* denominator (no update yet, or only updates whose targets were all
\* ignored) raises nothing and returns NaN, leaving the fields unchanged.
C4_ZeroDenominatorNaN ==
    (last.op = "compute" /\ kind # "BinaryF1Score"
        /\ Denominator(kind, pooled) = 0) => (last.result = NaN /\ last.kept)

C4_Witness ==
    /\ last.op = "compute"
    /\ kind = "CrossEntropyLoss"
    /\ seen.ok[1] >= 1
    /\ pooled.total_batches = 0
    /\ last.result = NaN

\* C5: update of a loss metric accepts a raw logits tensor and a mapping
\* with a `loss` or `logits` key; any other output is refused with an
\* error and sum_loss and total_batches stay unchanged.
C5_LossMetricsAcceptBothForms ==
    (last.op = "update" /\ kind \in LossKinds) =>
        IF SupportedOutput(last.form, last.keys)
        THEN last.raised \notin {"AssertionError", "KeyError", "Exception"}
        ELSE last.raised # "none" /\ last.kept

\* C6: MaskedAccuracy's total is the number of target positions seen that
\* differ from ignore_index, correct the number of those where the argmax
\* prediction equals the target, compute() is correct / total, and the
\* documented example (targets 1, ignore, 2, 2 against predictions
\* 1, 0, 2, 3) gives 2/3.
C6_MaskedAccuracyCounts ==
    kind = "MaskedAccuracy" =>
        /\ pooled.total = seen.valid
        /\ pooled.correct = seen.hits
        /\ pooled.correct <= pooled.total
        /\ last.op = "compute" =>
               last.result = TrueDiv(Rat(seen.hits, 1), seen.valid)
        /\ MaskedAccuracyCompute(
               MaskedAccuracyUpdate(MaskedAccuracyInit, Idx(-100),
                                    ExamplePreds, ExampleTarget).state).result
               = Num(Rat(2, 3))

C6_Witness ==
    /\ kind = "MaskedAccuracy"
    /\ ignore_index = Idx(-100)
    /\ last.op = "compute"
    /\ calls = 1
    /\ pooled = [correct |-> 2, total |-> 3]
    /\ last.result = Num(Rat(2, 3))

\* C7: a Perplexity instance and a LanguageCrossEntropyLoss instance given
\* the same update calls hold the same sum_loss and total_batches after
\* every step, and Perplexity.compute() is exp of the other's compute().
C7_PerplexityIsExpOfLoss ==
    kind = "Perplexity" =>
        /\ pooled = twin
        /\ last.op = "compute" =>
               last.result = Exp(LanguageCrossEntropyLossCompute(twin).result)

C7_Witness ==
    /\ kind = "Perplexity"
    /\ last.op = "compute"
    /\ seen.ok[1] = 2
    /\ last.result.tag = "exp"
    /\ last.result.den > 1

\* C8: for CrossEntropyLoss with any ignore_index (0 included), sum_loss is
\* the summed loss of the target positions that differ from ignore_index,
\* total_batches the number of those positions (every position when
\* ignore_index is None), and compute() their quotient.
C8_CrossEntropyMatchesReference ==
    kind = "CrossEntropyLoss" =>
        /\ pooled.sum_loss = seen.loss
        /\ pooled.total_batches = seen.valid
        /\ last.op = "compute" => last.result = TrueDiv(seen.loss, seen.valid)

\* C9: in a single-worker run BinaryF1Score's update only appends, so the
\* lists hold the outputs and targets of the calls in call order, and
\* compute() after at least one update returns the binary F1 score of the
\* argmax predictions against the labels over all batches.
C9_BinaryF1OverAllBatches ==
    kind = "BinaryF1Score" =>
        /\ pooled.predictions.items = seen.outputs
        /\ pooled.labels.items = seen.targets
        /\ Len(pooled.predictions.items) = Len(pooled.labels.items)
        /\ (last.op = "compute" /\ seen.ok[1] >= 1) =>
               last.result =
                   F1Score([i \in 1..Len(AllRows(seen.outputs)) |->
                               ArgmaxFirst(AllRows(seen.outputs)[i])],
                           AllRows(seen.targets))

\* C10: LanguageCrossEntropyLoss's total_batches is the number of update
\* calls that returned, whatever the batch sizes, and sum_loss the sum of
\* one loss per such call: the mapping's `loss` entry when there is one
\* (even beside `logits`), the recomputed soft cross entropy otherwise.
C10_OneLossPerUpdate ==
    kind = "LanguageCrossEntropyLoss" =>
        /\ pooled.total_batches = seen.ok[1]
        /\ pooled.sum_loss = seen.loss
        /\ (last.op = "update" /\ last.raised # "none") => last.kept

\* Two calls: a tensor of two positions with losses 313 and 1313 (mean
\* 813), then a mapping holding both `loss` (500) and `logits`.
C10_Witness ==
    /\ kind = "LanguageCrossEntropyLoss"
    /\ last.op = "update"
    /\ last.raised = "none"
    /\ last.keys = {"loss", "logits"}
    /\ pooled.total_batches = 2
    /\ pooled.sum_loss = Rat(813 + 500, 1)

====
